---------------------------- MODULE Spec2Model ----------------------------
(***************************************************************************)
(* htmlify.py: conversion of a plaintext changeset notification into an    *)
(* HTML document.  Texts are modelled as sequences of one-character        *)
(* strings.  Two specifications share the variables:                       *)
(*   Spec      builds a changeset text from pieces and applies htmlify     *)
(*             (and htmlify once more to its own output);                  *)
(*   SpecLine  builds one line character by character and applies          *)
(*             _mangle_line to it.                                         *)
(***************************************************************************)
EXTENDS Integers, Sequences, FiniteSets

VARIABLES
  text,   \* the argument: the changeset text (Spec) or one line (SpecLine)
  count,  \* number of pieces (Spec) or characters (SpecLine) text is made of
  out,    \* the value returned by htmlify (Spec) or _mangle_line (SpecLine)
  again,  \* the value returned by htmlify applied to its own output
  pc      \* "input", "done", "twice" (Spec); "line", "mangled" (SpecLine)

vars == <<text, count, out, again, pc>>

(* ------------------------------ bounds -------------------------------- *)

\* number of pieces a changeset text is built from
MaxPieces == 3

\* number of characters of a line handed to _mangle_line
MaxLineLen == 5

(* ----------------------------- constants ------------------------------ *)

\* '-'*63 and '*'*63
RuleWidth == 63

Rep(c, n) == [i \in 1..n |-> c]

_separator == <<">">> \o Rep("-", RuleWidth) \o <<"\n">>

_emailsep == <<">">> \o Rep("*", RuleWidth)


\* the styled rule _breakbody joins the emails with
EmailRule == <<"<", "h", "r", " ", "s", "t", "y", "l", "e", "=", "'", "h", "e", "i", "g", "h", "t", ":", " ", "3", "p", "x", ";", " ", "b", "a", "c", "k", "g", "r", "o", "u", "n", "d", "-", "c", "o", "l", "o", "r", ":", " ", "#", "e", "e", "e", ";", " ", "b", "o", "r", "d", "e", "r", ":", " ", "s", "o", "l", "i", "d", " ", "1", "p", "x", ";", " ", "c", "o", "l", "o", "r", ":", " ", "#", "c", "c", "c", ";", "'", ">", "<", "/", "h", "r", ">">>

HtmlOpen == <<"<", "h", "t", "m", "l", ">", "<", "b", "o", "d", "y", ">", "<", "t", "t", ">">>

HtmlClose == <<"<", "/", "t", "t", ">", "<", "/", "b", "o", "d", "y", ">", "<", "/", "h", "t", "m", "l", ">">>

TtRed == <<"<", "t", "t", " ", "s", "t", "y", "l", "e", "=", "\"", "c", "o", "l", "o", "r", ":", "#", "8", "0", "0", "\"", ">">>

TtGreen == <<"<", "t", "t", " ", "s", "t", "y", "l", "e", "=", "\"", "c", "o", "l", "o", "r", ":", "#", "0", "8", "0", "\"", ">">>

TtClose == <<"<", "/", "t", "t", ">">>

Nbsp == <<"&", "n", "b", "s", "p", ";">>

Hr == <<"<", "h", "r", ">">>

Br == <<"<", "b", "r", ">">>

(* ------------------------- string primitives -------------------------- *)

\* text[i:] starts with pat (i is 1-based)
MatchAt(s, pat, i) ==
  /\ i + Len(pat) - 1 <= Len(s)
  /\ \A j \in 1..Len(pat) : s[i + j - 1] = pat[j]

\* str.startswith
startswith(s, prefix) == MatchAt(s, prefix, 1)

\* the least element of a non-empty set of integers
Least(S) == CHOOSE x \in S : \A y \in S : x <= y

\* the concatenation of list[lo..hi]
RECURSIVE ConcatRange(_, _, _)
ConcatRange(list, lo, hi) ==
  IF lo > hi THEN <<>>
  ELSE IF lo = hi THEN list[lo]
  ELSE LET mid == (lo + hi) \div 2
       IN  ConcatRange(list, lo, mid) \o ConcatRange(list, mid + 1, hi)

\* sep.join(list)
join(sep, list) ==
  IF list = <<>> THEN <<>>
  ELSE LET parts == [k \in 1..(2 * Len(list) - 1) |->
                       IF k % 2 = 1 THEN list[(k + 1) \div 2] ELSE sep]
       IN  ConcatRange(parts, 1, Len(parts))

\* s.replace(ch, rep) for a one-character ch
replace(s, ch, rep) ==
  LET parts == [i \in 1..Len(s) |-> IF s[i] = ch THEN rep ELSE <<s[i]>>]
  IN  ConcatRange(parts, 1, Len(parts))

\* str.split(sep) for a non-empty sep: leftmost non-overlapping occurrences;
\* start is where the current piece begins
RECURSIVE SplitFrom(_, _, _)
SplitFrom(s, sep, start) ==
  LET found == {i \in start..(Len(s) - Len(sep) + 1) : MatchAt(s, sep, i)}
  IN  IF found = {}
        THEN <<SubSeq(s, start, Len(s))>>
        ELSE LET i == Least(found)
             IN  <<SubSeq(s, start, i - 1)>> \o SplitFrom(s, sep, i + Len(sep))

split(s, sep) == SplitFrom(s, sep, 1)

\* str.splitlines(): lines end at "\n", "\r" or "\r\n"; the line ends are
\* dropped and no empty last line is produced
RECURSIVE SplitLinesFrom(_, _)
SplitLinesFrom(s, start) ==
  LET ends == {i \in start..Len(s) : s[i] \in {"\n", "\r"}}
  IN  IF ends = {}
        THEN IF start <= Len(s) THEN <<SubSeq(s, start, Len(s))>> ELSE <<>>
        ELSE LET i == Least(ends)
                 next == IF s[i] = "\r" /\ i < Len(s) /\ s[i + 1] = "\n"
                           THEN i + 2 ELSE i + 1
             IN  <<SubSeq(s, start, i - 1)>> \o SplitLinesFrom(s, next)

\* text.split('\n') in place of splitlines(): an empty last line is kept
splitlines_keep_last(s) ==
  split(replace(join(<<"\n">>, split(s, <<"\r", "\n">>)), "\r", <<"\n">>),
        <<"\n">>)

splitlines(s) == SplitLinesFrom(s, 1)

(* ---------------------------- _mangle_line ---------------------------- *)

\* cgi.escape with "&" replaced last, after the entities are in place
cgi_escape_amp_last(s) ==
  replace(replace(replace(s, "<", <<"&", "l", "t", ";">>),
                  ">", <<"&", "g", "t", ";">>),
          "&", <<"&", "a", "m", "p", ";">>)

\* cgi.escape(s) with quote unset: "&" first, then "<", then ">"
cgi_escape(s) ==
  replace(replace(replace(s, "&", <<"&", "a", "m", "p", ";">>),
                  "<", <<"&", "l", "t", ";">>),
          ">", <<"&", "g", "t", ";">>)

\* list(_pattern.finditer(content)) from 1-based index from on: the spans
\* (start, end), 0-based and end-exclusive, of the matches of '(  +)',
\* each match taking all the spaces that follow its first two
RECURSIVE finditer(_, _)
finditer(s, from) ==
  LET found == {i \in from..(Len(s) - 1) : s[i] = " " /\ s[i + 1] = " "}
  IN  IF found = {}
        THEN <<>>
        ELSE LET i == Least(found)
                 e == Least({j \in (i + 1)..Len(s) :
                               j = Len(s) \/ s[j + 1] # " "})
             IN  <<<<i - 1, e>>>> \o finditer(s, e + 1)

\* the loop over reversed(list(m)): spans[1..k] are still to be replaced,
\* the last of them first
RECURSIVE nbsp_loop(_, _, _)
nbsp_loop(content, spans, k) ==
  IF k = 0 THEN content
  ELSE LET start == spans[k][1]
           end   == spans[k][2]
           repl  == join(<<>>, [r \in 1..(end - start) |-> Nbsp])
       IN  nbsp_loop(SubSeq(content, 1, start) \o repl
                       \o SubSeq(content, end + 1, Len(content)),
                     spans, k - 1)

\* the loop without reversed(): the spans of the later matches are stale
nbsp_runs_forward(content) ==
  LET m == finditer(content, 1)
  IN  nbsp_loop(content, [k \in 1..Len(m) |-> m[Len(m) + 1 - k]], Len(m))

nbsp_runs(content) ==
  LET m == finditer(content, 1) IN nbsp_loop(content, m, Len(m))

\* _mangle_line classifying content.lstrip() instead of content
_mangle_line_lstrip(line) ==
  LET content  == nbsp_runs(cgi_escape(line))
      nonspace == {i \in 1..Len(content) : content[i] # " "}
      stripped == IF nonspace = {} THEN <<>>
                  ELSE SubSeq(content, Least(nonspace), Len(content))
  IN  IF startswith(stripped, <<"-">>) THEN TtRed \o content \o TtClose
      ELSE IF startswith(stripped, <<"+">>) THEN TtGreen \o content \o TtClose
      ELSE content

\* _mangle_line testing content[0] instead of content.startswith: on an
\* empty line the subscript raises, and what comes out is no text
_mangle_line_index(line) ==
  LET content == nbsp_runs(cgi_escape(line))
  IN  IF content = <<>> THEN <<"IndexError">>
      ELSE IF content[1] = "-" THEN TtRed \o content \o TtClose
      ELSE IF content[1] = "+" THEN TtGreen \o content \o TtClose
      ELSE content

_mangle_line(line) ==
  LET content == nbsp_runs(cgi_escape(line))
  IN  IF startswith(content, <<"-">>) THEN TtRed \o content \o TtClose
      ELSE IF startswith(content, <<"+">>) THEN TtGreen \o content \o TtClose
      ELSE content

(* ------------------------ _breakemail, htmlify ------------------------ *)

_convert_block(blk) ==
  LET ls == splitlines(blk) IN [n \in 1..Len(ls) |-> _mangle_line(ls[n])]

\* the round with "if i >= 0": a marker before the first block as well
block_output_hr_first(i, blk) ==
  (IF i >= 0 THEN <<Hr>> ELSE <<>>) \o _convert_block(blk)

\* one round of the loop over enumerate(text.split(_separator)): what the
\* block blk with 0-based index i adds to the output list
block_output(i, blk) ==
  (IF i > 0 THEN <<Hr>> ELSE <<>>) \o _convert_block(blk)

\* _breakemail that divides the text only when it falls into three blocks
_breakemail_three(t) ==
  LET blks   == split(t, _separator)
      rounds == [k \in 1..Len(blks) |-> block_output(k - 1, blks[k])]
  IN  IF Len(blks) = 3
        THEN join(Br, ConcatRange(rounds, 1, Len(rounds)))
        ELSE join(Br, _convert_block(t))

_breakemail(t) ==
  LET blks   == split(t, _separator)
      rounds == [k \in 1..Len(blks) |-> block_output(k - 1, blks[k])]
  IN  join(Br, ConcatRange(rounds, 1, Len(rounds)))

\* _breakbody without the split on _emailsep
_breakbody_one_email(t) == _breakemail(t)

_breakbody(t) ==
  LET emails == split(t, _emailsep)
  IN  join(EmailRule, [n \in 1..Len(emails) |-> _breakemail(emails[n])])

\* htmlify without the <tt> element around the body
htmlify_no_tt(t) ==
  <<"<", "h", "t", "m", "l", ">", "<", "b", "o", "d", "y", ">">>
    \o _breakbody(t)
    \o <<"<", "/", "b", "o", "d", "y", ">", "<", "/", "h", "t", "m", "l", ">">>

\* htmlify that hands back a text that is a document already
htmlify_once(t) ==
  IF startswith(t, HtmlOpen) THEN t
  ELSE HtmlOpen \o _breakbody(t) \o HtmlClose

htmlify(t) == HtmlOpen \o _breakbody(t) \o HtmlClose

(* ------------------------------ inputs -------------------------------- *)

\* what a changeset text is built from: single characters, markup-looking
\* words, whole separators and the rules of 63 characters they contain
Pieces ==
  { <<"a">>, <<"-">>, <<">">>, <<"\n">>, <<"\r">>, Br, Hr,
    Rep("-", RuleWidth), Rep("*", RuleWidth), _separator, _emailsep }

\* the characters of a line handed to _mangle_line
LineChars == {"a", " ", "-", "+", "<", ">", "&"}

(* --------------------------- specification ---------------------------- *)

Init ==
  /\ text = <<>>
  /\ count = 0
  /\ out = <<>>
  /\ again = <<>>
  /\ pc = "input"

\* the caller's text grows by one piece
AppendPiece(p) ==
  /\ pc = "input"
  /\ count < MaxPieces
  /\ text' = text \o p
  /\ count' = count + 1
  /\ UNCHANGED <<out, again, pc>>

\* htmlify(text)
Htmlify ==
  /\ pc = "input"
  /\ out' = htmlify(text)
  /\ pc' = "done"
  /\ UNCHANGED <<text, count, again>>

\* htmlify applied to the document it returned
Rerender ==
  /\ pc = "done"
  /\ again' = htmlify(out)
  /\ pc' = "twice"
  /\ UNCHANGED <<text, count, out>>

Next ==
  \/ \E p \in Pieces : AppendPiece(p)
  \/ Htmlify
  \/ Rerender

Spec == Init /\ [][Next]_vars

InitLine ==
  /\ text = <<>>
  /\ count = 0
  /\ out = <<>>
  /\ again = <<>>
  /\ pc = "line"

\* the line grows by one character
TypeChar(c) ==
  /\ pc = "line"
  /\ count < MaxLineLen
  /\ text' = Append(text, c)
  /\ count' = count + 1
  /\ UNCHANGED <<out, again, pc>>

\* _mangle_line(text)
MangleLine ==
  /\ pc = "line"
  /\ out' = _mangle_line(text)
  /\ pc' = "mangled"
  /\ UNCHANGED <<text, count, again>>

NextLine ==
  \/ \E c \in LineChars : TypeChar(c)
  \/ MangleLine

SpecLine == InitLine /\ [][NextLine]_vars

(* ----------------------- operators of the claims ---------------------- *)

contains(s, pat) == \E i \in 1..Len(s) : MatchAt(s, pat, i)

\* number of leftmost non-overlapping occurrences of pat in s
CountOcc(s, pat) == Len(split(s, pat)) - 1

endswith(s, suffix) == MatchAt(s, suffix, Len(s) - Len(suffix) + 1)

\* what stands between the document wrapper tags
Body(doc) == SubSeq(doc, Len(HtmlOpen) + 1, Len(doc) - Len(HtmlClose))

\* a rendered line without its colour wrapper
Unwrap(r) ==
  IF (startswith(r, TtRed) \/ startswith(r, TtGreen)) /\ endswith(r, TtClose)
    THEN SubSeq(r, Len(TtRed) + 1, Len(r) - Len(TtClose))
    ELSE r

\* the space at index i of s has a space next to it
InRun(s, i) ==
  /\ s[i] = " "
  /\ \/ i > 1 /\ s[i - 1] = " "
     \/ i < Len(s) /\ s[i + 1] = " "

\* all maximal runs of two or more spaces replaced at once
ReplaceRuns(s) ==
  LET parts == [i \in 1..Len(s) |-> IF InRun(s, i) THEN Nbsp ELSE <<s[i]>>]
  IN  ConcatRange(parts, 1, Len(parts))

\* the four entities a rendered line can hold, with what they stand for
Entities ==
  { <<<<"&", "a", "m", "p", ";">>, "&">>, <<<<"&", "l", "t", ";">>, "<">>,
    <<<<"&", "g", "t", ";">>, ">">>,      <<Nbsp, " ">> }

EntityAt(s, i) == {e \in Entities : MatchAt(s, e[1], i)}

\* index i lies inside an entity that starts before it
InsideEntity(s, i) ==
  \E j \in 1..(i - 1) : \E e \in EntityAt(s, j) : i < j + Len(e[1])

\* the text a browser shows for the markup-free string s
Unescape(s) ==
  LET parts == [i \in 1..Len(s) |->
                  IF InsideEntity(s, i) THEN <<>>
                  ELSE IF EntityAt(s, i) # {}
                    THEN <<(CHOOSE e \in EntityAt(s, i) : TRUE)[2]>>
                    ELSE <<s[i]>>]
  IN  ConcatRange(parts, 1, Len(parts))

\* the lines of a block, by newline boundaries: "\r\n" and "\r" count as
\* "\n", and the text after the last newline is a line unless it is empty
LinesOf(blk) ==
  LET norm == replace(join(<<"\n">>, split(blk, <<"\r", "\n">>)),
                      "\r", <<"\n">>)
      p    == split(norm, <<"\n">>)
  IN  IF p[Len(p)] = <<>> THEN SubSeq(p, 1, Len(p) - 1) ELSE p

\* the rendered lines and <hr> markers of one email, in input order
ItemsOf(email) ==
  LET blks == split(email, _separator)
      per  == [k \in 1..Len(blks) |->
                 (IF k > 1 THEN <<Hr>> ELSE <<>>)
                 \o [l \in 1..Len(LinesOf(blks[k])) |->
                       _mangle_line(LinesOf(blks[k])[l])]]
  IN  ConcatRange(per, 1, Len(per))

\* every character a text or a document is made of
Chars ==
  {"\n", "\r", " ", "\"", "#", "&", "'", "*", "+", "-", "/", "0", "1", "3",
   "8", ":", ";", "<", "=", ">", "a", "b", "c", "d", "e", "g", "h", "i", "k",
   "l", "m", "n", "o", "p", "r", "s", "t", "u", "x", "y"}

IsText(v) == v \in Seq(Chars)

Rendered == pc \in {"done", "twice"}

(* ------------------------------- claims ------------------------------- *)

\* C1 as stated: exactly two occurrences of the block delimiter give two
\* <hr> markers; any other number of occurrences gives one undivided block
\* and no <hr> marker.
C1_OnlyThreeBlocks ==
  (Rendered /\ ~contains(text, _emailsep)) =>
    LET k == CountOcc(text, _separator)
    IN  /\ k = 2 => CountOcc(out, Hr) = 2
        /\ k # 2 => /\ CountOcc(out, Hr) = 0
                    /\ Body(out) = join(Br, _convert_block(text))

\* C1 amended: k occurrences of the block delimiter split the text into
\* k + 1 blocks and the document holds exactly k <hr> markers, one between
\* each pair of adjacent blocks; each part of the body between the markers
\* is the rendering of the corresponding block; only a text without the
\* delimiter is one undivided block.
C1_EveryDelimiterSplits ==
  Rendered =>
    /\ CountOcc(out, Hr) = CountOcc(text, _separator)
    /\ ~contains(text, _emailsep) =>
         LET blks  == split(text, _separator)
             parts == split(Body(out), Hr)
         IN  /\ Len(parts) = Len(blks)
             /\ \A i \in 1..Len(blks) :
                  parts[i] = join(Br, (IF i > 1 THEN <<<<>>>> ELSE <<>>)
                                      \o _convert_block(blks[i])
                                      \o (IF i < Len(blks) THEN <<<<>>>>
                                                           ELSE <<>>))

C1_Witness ==
  /\ pc = "done"
  /\ CountOcc(text, _separator) = 3
  /\ CountOcc(out, Hr) = 3

\* C2 as stated: no HTML special character is escaped; apart from the colour
\* wrapper the rendered line is the line with its runs of spaces replaced.
C2_NothingEscaped ==
  pc = "mangled" => Unwrap(out) = ReplaceRuns(text)

\* C2 amended: the line is HTML-escaped: the rendered content holds no "<"
\* and no ">", each "&" in it starts one of &amp; &lt; &gt; &nbsp;, and
\* decoding the entities gives the line back.
C2_SpecialsEscaped ==
  pc = "mangled" =>
    LET c == Unwrap(out)
    IN  /\ \A i \in 1..Len(c) : c[i] \notin {"<", ">"}
        /\ \A i \in 1..Len(c) : c[i] = "&" => EntityAt(c, i) # {}
        /\ Unescape(c) = text

C2_Witness ==
  /\ pc = "mangled"
  /\ {"<", ">", "&"} \subseteq {text[i] : i \in 1..Len(text)}
  /\ Len(out) > Len(text)

\* C3: a line whose first character is "-" is rendered as the red wrapper
\* around its mangled content, one whose first character is "+" as the green
\* wrapper around it, any other line as the mangled content alone; the first
\* character of the mangled content classifies like that of the line.
C3_DiffSignColouring ==
  pc = "mangled" =>
    LET content == nbsp_runs(cgi_escape(text))
        first   == IF text = <<>> THEN "" ELSE text[1]
    IN  /\ first = "-" => out = TtRed \o content \o TtClose
        /\ first = "+" => out = TtGreen \o content \o TtClose
        /\ first \notin {"-", "+"} =>
             /\ out = content
             /\ ~startswith(out, TtRed)
             /\ ~startswith(out, TtGreen)
        /\ startswith(content, <<"-">>) <=> first = "-"
        /\ startswith(content, <<"+">>) <=> first = "+"

C3_Witness ==
  /\ pc = "mangled"
  /\ Len(text) >= 3
  /\ text[1] = " " /\ text[2] = " " /\ text[3] \in {"-", "+"}
  /\ ~startswith(out, TtRed) /\ ~startswith(out, TtGreen)

\* C4: in the rendered content every space of a run of two or more spaces is
\* one &nbsp; at the place of that space, a space with no space next to it
\* stays a space, and the other characters stay in order; replacing the
\* matches back to front gives what replacing all runs at once gives.
C4_SpaceRuns ==
  pc = "mangled" =>
    LET c == Unwrap(out)
    IN  /\ c = ReplaceRuns(cgi_escape(text))
        /\ CountOcc(c, Nbsp)
             = Cardinality({i \in 1..Len(text) : InRun(text, i)})
        /\ CountOcc(c, <<" ">>)
             = Cardinality({i \in 1..Len(text) :
                              text[i] = " " /\ ~InRun(text, i)})

C4_Witness ==
  /\ pc = "mangled"
  /\ Len(finditer(text, 1)) = 2
  /\ CountOcc(out, Nbsp) = 4

\* C5: the document starts with <html><body><tt>, ends with
\* </tt></body></html>, and what stands between them is the rendered body.
C5_Wrapper ==
  Rendered =>
    /\ startswith(out, HtmlOpen)
    /\ endswith(out, HtmlClose)
    /\ Len(out) >= Len(HtmlOpen) + Len(HtmlClose)
    /\ Body(out) = _breakbody(text)

C5_Witness ==
  /\ pc = "done"
  /\ text # <<>>
  /\ Body(out) # <<>>

\* C6: whatever text htmlify is called with, what it returns is a text; no
\* value that is not a string of characters comes out of any step.
C6_Total ==
  /\ pc = "input" => IsText(htmlify(text))
  /\ Rendered => IsText(out)
  /\ pc = "twice" => IsText(again)

C6_Witness ==
  /\ pc = "done"
  /\ contains(text, <<"\n", "\n">>)
  /\ contains(text, Rep("-", RuleWidth))
  /\ ~contains(text, _separator)

\* C7: the empty text is rendered as <html><body><tt></tt></body></html>.
C7_EmptyInput ==
  (Rendered /\ text = <<>>) =>
    /\ out = HtmlOpen \o HtmlClose
    /\ ~contains(out, Br)
    /\ ~contains(out, Hr)

C7_Witness ==
  /\ pc = "done"
  /\ text = <<>>

\* C8: the rendering of a rendered document is never that document: it is
\* longer, and after the wrapper it starts with the escaped wrapper.
C8_NotIdempotent ==
  pc = "twice" =>
    /\ again # out
    /\ Len(again) > Len(out)
    /\ startswith(again, HtmlOpen \o cgi_escape(SubSeq(HtmlOpen, 1, 15)))

C8_Witness ==
  /\ pc = "twice"
  /\ contains(out, <<"&", "g", "t", ";">>)
  /\ contains(again, <<"&", "a", "m", "p", ";", "g", "t", ";">>)

C10_SeparatorNeverInOutput ==
  Rendered =>
    /\ CountOcc(out, EmailRule) = CountOcc(text, _emailsep)
    /\ ~contains(out, _emailsep)

\* C10 amended: the text is split at every occurrence of the email
\* separator, the parts of the body between the styled rules are the
\* renderings of the segments, and there are exactly as many styled rules as
\* occurrences (none without an occurrence); the occurrences themselves are
\* not copied, but ">" followed by 63 "*" can still stand in the document
\* where the ">" that closes an inserted tag precedes 63 "*" of the text.
C10_EmailSeparator ==
  Rendered =>
    LET emails == split(text, _emailsep)
        bodies == split(Body(out), EmailRule)
    IN  /\ CountOcc(out, EmailRule) = CountOcc(text, _emailsep)
        /\ Len(bodies) = Len(emails)
        /\ \A e \in 1..Len(emails) : bodies[e] = _breakemail(emails[e])
        /\ \A i \in 1..Len(out) :
             MatchAt(out, _emailsep, i) =>
               \/ i = Len(HtmlOpen)
               \/ MatchAt(out, <<"<", "b", "r">>, i - 3)
               \/ MatchAt(out, <<"<", "h", "r">>, i - 3)
               \/ MatchAt(out, <<"<", "/", "h", "r">>, i - 4)

C10_Witness ==
  /\ pc = "done"
  /\ CountOcc(text, _emailsep) = 2
  /\ CountOcc(out, EmailRule) = 2

====
